---- MODULE Spec2Model ----
(***************************************************************************)
(* The import pipeline of covid-policy-grapher                             *)
(* (dashboard/management/commands/import_covid_data.py) over the tables    *)
(* of dashboard/models.py, and the query api_timeseries of                 *)
(* dashboard/views.py that reads them.                                     *)
(*                                                                         *)
(* Text is a sequence of one-character strings, so that the parsers can    *)
(* look at characters as the code does.  A float is a fixed-point number   *)
(* in tenths (12.0 is 120).  An optional value is <<>> (None) or <<v>>.    *)
(* A missing CSV column and an empty one are both the empty text: every    *)
(* use in the code treats None and "" alike.                               *)
(***************************************************************************)
EXTENDS Integers, Sequences, FiniteSets, Bags, TLC

VARIABLES
    Country,      \* table Country: iso_code -> [name, population]
    DailyMetric,  \* table DailyMetric: a set of rows
    PolicyDaily,  \* table PolicyDaily: a set of rows
    PolicyEvent,  \* table PolicyEvent: a bag of rows (no uniqueness constraint)
    pre,          \* the four tables as they were when the running (or last) command began
    run           \* the running (or last) command: which one, where it is, what it has read

vars == <<Country, DailyMetric, PolicyDaily, PolicyEvent, pre, run>>

\* ------------------------------------------------------------------ values

None == <<>>

Some(v) == <<v>>

Range(s) == {s[i] : i \in 1..Len(s)}

Digits == <<"0", "1", "2", "3", "4", "5", "6", "7", "8", "9">>

IsDigit(c) == c \in Range(Digits)

DigitVal(c) == (CHOOSE i \in 1..10 : Digits[i] = c) - 1

IsDigits(s) == Len(s) > 0 /\ \A i \in 1..Len(s) : IsDigit(s[i])

RECURSIVE ToNat(_)
ToNat(s) ==
    IF s = <<>> THEN 0
    ELSE ToNat(SubSeq(s, 1, Len(s) - 1)) * 10 + DigitVal(s[Len(s)])

\* float(x) on the decimal texts of the feeds: digits, or digits "." digit.
\* <<>> stands for the ValueError float() raises on anything else.
ParseTenths(s) ==
    IF IsDigits(s) THEN Some(ToNat(s) * 10)
    ELSE IF /\ Len(s) >= 3
            /\ s[Len(s) - 1] = "."
            /\ IsDigits(SubSeq(s, 1, Len(s) - 2))
            /\ IsDigit(s[Len(s)])
         THEN Some(ToNat(SubSeq(s, 1, Len(s) - 2)) * 10 + DigitVal(s[Len(s)]))
         ELSE None

_to_float(x) ==
    IF x = <<>> THEN None ELSE ParseTenths(x)

_to_int(x) ==
    IF x = <<>> THEN None
    ELSE IF ParseTenths(x) = None THEN None
         ELSE Some(ParseTenths(x)[1] \div 10)

\* ------------------------------------------------------------------- dates

IsSpace(c) == c \in {" ", "\t", "\n", "\r"}

RECURSIVE strip(_)
strip(s) ==
    IF s = <<>> THEN s
    ELSE IF IsSpace(s[1]) THEN strip(Tail(s))
    ELSE IF IsSpace(s[Len(s)]) THEN strip(SubSeq(s, 1, Len(s) - 1))
    ELSE s

IsLeap(y) == (y % 4 = 0 /\ y % 100 # 0) \/ y % 400 = 0

DaysInMonth(y, m) ==
    IF m = 2 THEN (IF IsLeap(y) THEN 29 ELSE 28)
    ELSE IF m \in {4, 6, 9, 11} THEN 30 ELSE 31

\* datetime.date(y, m, d) as the number yyyymmdd, which orders as dates do;
\* [raised |-> TRUE] is the ValueError of strptime.
datetime_date(y, m, d) ==
    IF y >= 1 /\ m \in 1..12 /\ d \in 1..DaysInMonth(y, m)
    THEN [raised |-> FALSE, value |-> Some(y * 10000 + m * 100 + d)]
    ELSE [raised |-> TRUE, value |-> None]

\* the fields %Y, %m and %d of strptime: four digits, one or two, one or two
MakeDate(ys, ms, ds) ==
    IF /\ IsDigits(ys) /\ IsDigits(ms) /\ IsDigits(ds)
       /\ Len(ys) = 4 /\ Len(ms) \in 1..2 /\ Len(ds) \in 1..2
    THEN datetime_date(ToNat(ys), ToNat(ms), ToNat(ds))
    ELSE [raised |-> TRUE, value |-> None]

Dashes(s) == {i \in 1..Len(s) : s[i] = "-"}

\* datetime.strptime(s, "%Y-%m-%d").date()
StrptimeDashed(s) ==
    IF Cardinality(Dashes(s)) # 2 THEN [raised |-> TRUE, value |-> None]
    ELSE LET i == CHOOSE k \in Dashes(s) : \A j \in Dashes(s) : k <= j
             j == CHOOSE k \in Dashes(s) : k # i
         IN  MakeDate(SubSeq(s, 1, i - 1), SubSeq(s, i + 1, j - 1), SubSeq(s, j + 1, Len(s)))

\* datetime.strptime(s, "%Y%m%d").date() on a text of length 8
StrptimeCompact(s) ==
    MakeDate(SubSeq(s, 1, 4), SubSeq(s, 5, 6), SubSeq(s, 7, 8))

\* _parse_date once s is stripped
ParseStripped(s) ==
    IF s = <<>> THEN [raised |-> FALSE, value |-> None]
    ELSE IF "-" \in Range(s) THEN StrptimeDashed(s)
    ELSE IF Len(s) = 8 THEN StrptimeCompact(s)
    ELSE [raised |-> FALSE, value |-> None]

_parse_date(s0) == ParseStripped(strip(s0))

\* ------------------------------------------------------------------ tables

\* row.get(k): the empty text when the column is missing
Get(row, k) == IF k \in DOMAIN row THEN row[k] ELSE <<>>

\* a or b or c on texts
Or3(a, b, c) == IF a # <<>> THEN a ELSE IF b # <<>> THEN b ELSE c

StartsWith(s, p) == Len(s) >= Len(p) /\ SubSeq(s, 1, Len(p)) = p

Lower == <<"a", "b", "c", "d", "e", "f", "g", "h", "i", "j", "k", "l", "m",
           "n", "o", "p", "q", "r", "s", "t", "u", "v", "w", "x", "y", "z">>

Upper == <<"A", "B", "C", "D", "E", "F", "G", "H", "I", "J", "K", "L", "M",
           "N", "O", "P", "Q", "R", "S", "T", "U", "V", "W", "X", "Y", "Z">>

\* str.upper()
upper(s) ==
    [i \in 1..Len(s) |->
        IF s[i] \in Range(Lower)
        THEN Upper[CHOOSE k \in 1..26 : Lower[k] = s[i]]
        ELSE s[i]]

\* the value fields of DailyMetric (models.py)
MetricFields ==
    {"new_cases_smoothed", "new_deaths_smoothed", "total_cases", "total_deaths",
     "cases_per_million", "deaths_per_million", "total_vaccinations_per_hundred",
     "people_vaccinated_per_hundred", "people_fully_vaccinated_per_hundred",
     "new_vaccinations_smoothed_per_million"}

\* the value fields of PolicyDaily (models.py)
PolicyFields ==
    {"stringency_index", "c1_school_closing", "c2_workplace_closing",
     "c6_stay_at_home", "c8_international_travel_controls", "h6_facial_coverings"}

\* the database: the four tables
DB(c, m, p, e) == [Country |-> c, DailyMetric |-> m, PolicyDaily |-> p, PolicyEvent |-> e]

\* Country.objects.get_or_create(iso_code=iso, defaults={"name": name})
get_or_create(countries, iso, name) ==
    IF iso \in DOMAIN countries THEN countries
    ELSE [k \in DOMAIN countries \cup {iso} |->
            IF k = iso THEN [name |-> name, population |-> None] ELSE countries[k]]

\* A field-level merge, which update_or_create is not: an empty default
\* leaves the stored value in place.
UpdateOrCreateMerge(table, fields, iso, d, defaults) ==
    LET match == {r \in table : r.country = iso /\ r.date = d}
        fresh == [k \in fields \cup {"country", "date"} |->
                    IF k = "country" THEN iso
                    ELSE IF k = "date" THEN d
                    ELSE IF k \in DOMAIN defaults THEN defaults[k] ELSE None]
    IN  IF match = {} THEN table \cup {fresh}
        ELSE (table \ match) \cup
             {[k \in DOMAIN r |->
                 IF k \in DOMAIN defaults /\ defaults[k] # None THEN defaults[k] ELSE r[k]]
              : r \in match}

\* A plain insert, which update_or_create is not: a second row under the key.
UpdateOrCreateInsert(table, fields, iso, d, defaults) ==
    table \cup
        {[k \in fields \cup {"country", "date"} |->
            IF k = "country" THEN iso
            ELSE IF k = "date" THEN d
            ELSE IF k \in DOMAIN defaults THEN defaults[k] ELSE None]}

\* objects.update_or_create(country=iso, date=d, defaults=defaults) on a table
\* whose value fields are `fields`: the matching row gets the defaults and
\* keeps its other fields; without a match a row is created, its other
\* fields null.
update_or_create(table, fields, iso, d, defaults) ==
    LET match == {r \in table : r.country = iso /\ r.date = d}
        fresh == [k \in fields \cup {"country", "date"} |->
                    IF k = "country" THEN iso
                    ELSE IF k = "date" THEN d
                    ELSE IF k \in DOMAIN defaults THEN defaults[k] ELSE None]
    IN  IF match = {} THEN table \cup {fresh}
        ELSE (table \ match) \cup
             {[k \in DOMAIN r |-> IF k \in DOMAIN defaults THEN defaults[k] ELSE r[k]]
              : r \in match}

\* A cap that lets one country too many in.
CapSkipLate(limit_countries, iso, seen_countries) ==
    /\ limit_countries # 0
    /\ iso \notin seen_countries
    /\ Cardinality(seen_countries) > limit_countries

\* the cap on distinct countries: "if limit_countries and iso not in
\* seen_countries and len(seen_countries) >= limit_countries: continue"
CapSkip(limit_countries, iso, seen_countries) ==
    /\ limit_countries # 0
    /\ iso \notin seen_countries
    /\ Cardinality(seen_countries) >= limit_countries

\* "defaults" of DailyMetric.objects.update_or_create in import_owid
OwidDefaults(row) ==
    [new_cases_smoothed |-> _to_float(Get(row, "new_cases_smoothed")),
     new_deaths_smoothed |-> _to_float(Get(row, "new_deaths_smoothed")),
     total_cases |-> _to_float(Get(row, "total_cases")),
     total_deaths |-> _to_float(Get(row, "total_deaths")),
     cases_per_million |-> _to_float(Get(row, "new_cases_smoothed_per_million")),
     deaths_per_million |-> _to_float(Get(row, "new_deaths_smoothed_per_million")),
     total_vaccinations_per_hundred |-> _to_float(Get(row, "total_vaccinations_per_hundred")),
     people_fully_vaccinated_per_hundred |->
         _to_float(Get(row, "people_fully_vaccinated_per_hundred"))]

\* "if not iso or iso.startswith("OWID_"): continue"
OwidAggregate(iso) == iso = <<>> \/ StartsWith(iso, <<"O", "W", "I", "D", "_">>)

\* The end of an iteration of import_owid: `country` is fetched or created,
\* its name and population are updated, and the metrics are stored.
OwidStore(st, row, iso, name, pop, d, c0) ==
    [db |-> [st.db EXCEPT
               !.Country =
                   [c0 EXCEPT ![iso] =
                       [name |-> IF name # <<>> /\ c0[iso].name # name
                                 THEN name ELSE c0[iso].name,
                        population |->
                            IF /\ pop # None /\ pop # Some(0)
                               /\ (c0[iso].population \in {None, Some(0)}
                                   \/ c0[iso].population # pop)
                            THEN pop ELSE c0[iso].population]],
               !.DailyMetric = update_or_create(st.db.DailyMetric, MetricFields,
                                                iso, d, OwidDefaults(row))],
     seen |-> st.seen \cup {iso},
     raised |-> FALSE]

\* An iteration of import_owid once iso, name, pop and d are bound
OwidBody(st, row, limit_countries, iso, name, pop, d) ==
    IF OwidAggregate(iso) THEN st
    ELSE IF CapSkip(limit_countries, iso, st.seen) THEN st
    ELSE IF d.raised THEN [st EXCEPT !.raised = TRUE]
    ELSE IF d.value = None THEN st
    ELSE OwidStore(st, row, iso, name, pop, d.value[1],
                   get_or_create(st.db.Country, iso, IF name # <<>> THEN name ELSE iso))

\* One iteration of the loop of import_owid over `row`.  st is
\* [db, seen, raised]; a ValueError of _parse_date leaves the loop.
OwidRow(st, row, limit_countries) ==
    OwidBody(st, row, limit_countries, Get(row, "iso_code"), Get(row, "location"),
             _to_float(Get(row, "population")), _parse_date(Get(row, "date")))

RECURSIVE OwidLoop(_, _, _, _)
OwidLoop(st, rows, i, limit_countries) ==
    IF i > Len(rows) \/ st.raised THEN st
    ELSE OwidLoop(OwidRow(st, rows[i], limit_countries), rows, i + 1, limit_countries)

\* A call outside any transaction: what it wrote before raising stays.
AtomicNoRollback(before, res) == res.db

\* @transaction.atomic: the changes of a call that raises are rolled back
Atomic(before, res) == IF res.raised THEN before ELSE res.db

\* the outcome of a command run as one transaction on the store `before`
Transaction(before, res) ==
    [db |-> Atomic(before, res), seen |-> res.seen, raised |-> res.raised]

\* Command.import_owid(csv_text, limit_countries)
import_owid(db, rows, limit_countries) ==
    Transaction(db, OwidLoop([db |-> db, seen |-> {}, raised |-> FALSE], rows, 1,
                             limit_countries))

\* ----------------------------------------------------------- policy events

Abs(x) == IF x < 0 THEN -x ELSE x

Min(a, b) == IF a < b THEN a ELSE b

\* the noise threshold of the Stringency diff, 2.0, in tenths.  The code
\* subtracts binary floats; the stringency values used here (8.0, 8.1, 10.0,
\* 11.9, 12.0, 13.0, 50) are ones whose float difference stands to 2.0 as the
\* decimal difference does.
StringencyThreshold == 20

\* A diff whose threshold is exclusive: a step of exactly the threshold is
\* dropped.
diffStrict(label, a, b, float_threshold) ==
    IF a = b THEN <<>>
    ELSE IF a = None /\ b = None THEN <<>>
    ELSE IF /\ float_threshold # 0 /\ a # None /\ b # None
            /\ Abs(b[1] - a[1]) <= float_threshold
         THEN <<>>
    ELSE << <<label, a, b>> >>

\* A diff that wants both values set: None -> 2 and 2 -> None are dropped.
diffBothSet(label, a, b, float_threshold) ==
    IF a = b THEN <<>>
    ELSE IF a = None \/ b = None THEN <<>>
    ELSE IF /\ float_threshold # 0 /\ a # None /\ b # None
            /\ Abs(b[1] - a[1]) < float_threshold
         THEN <<>>
    ELSE << <<label, a, b>> >>

\* The closure diff(label, a, b, float_threshold) of generate_policy_events:
\* the clauses it appends to `changes` (none or one).  The clause
\* f"{label}: {a} -> {b}" is kept as <<label, a, b>>; a float_threshold of 0
\* is the default 0.0, "no threshold".
diff(label, a, b, float_threshold) ==
    IF a = b THEN <<>>
    ELSE IF a = None /\ b = None THEN <<>>
    ELSE IF /\ float_threshold # 0 /\ a # None /\ b # None
            /\ Abs(b[1] - a[1]) < float_threshold
         THEN <<>>
    ELSE << <<label, a, b>> >>

\* the six calls of diff on the snapshots prev and p, in the code's order
Changes(prev, p) ==
    diff("Stringency", prev.stringency_index, p.stringency_index, StringencyThreshold)
    \o diff("School closing", prev.c1_school_closing, p.c1_school_closing, 0)
    \o diff("Workplace closing", prev.c2_workplace_closing, p.c2_workplace_closing, 0)
    \o diff("Stay-at-home", prev.c6_stay_at_home, p.c6_stay_at_home, 0)
    \o diff("Intl travel", prev.c8_international_travel_controls,
            p.c8_international_travel_controls, 0)
    \o diff("Face coverings", prev.h6_facial_coverings, p.h6_facial_coverings, 0)

\* A text whose suffix appears from three changes on, " (+0 more)" included.
EventTextOffByOne(changes) ==
    [clauses |-> SubSeq(changes, 1, Min(3, Len(changes))),
     more    |-> IF Len(changes) >= 3 THEN Some(Len(changes) - 3) ELSE None]

\* text = "; ".join(changes[:3]), plus " (+{len(changes) - 3} more)" when
\* len(changes) > 3: the clauses joined, and the suffix's number if any
EventText(changes) ==
    [clauses |-> SubSeq(changes, 1, Min(3, Len(changes))),
     more    |-> IF Len(changes) > 3 THEN Some(Len(changes) - 3) ELSE None]

\* PolicyDaily.objects.filter(country=country).order_by("date")
RECURSIVE OrderByDate(_)
OrderByDate(rows) ==
    IF rows = {} THEN <<>>
    ELSE LET r == CHOOSE x \in rows : \A y \in rows : x.date <= y.date
         IN  <<r>> \o OrderByDate(rows \ {r})

\* A generator that appends to the events it finds instead of deleting them.
DeleteEventsNoop(events, iso) == events

\* PolicyEvent.objects.filter(country=country).delete()
DeleteEvents(events, iso) ==
    LET keep == {e \in BagToSet(events) : e.country # iso}
    IN  IF keep = {} THEN EmptyBag ELSE [e \in keep |-> events[e]]

\* "if changes: ... PolicyEvent.objects.create(country, date=p.date, text)"
CreateEvent(events, iso, d, changes) ==
    IF changes # <<>>
    THEN events (+) SetToBag({[country |-> iso, date |-> d, text |-> EventText(changes)]})
    ELSE events

\* the loop "for p in qs" of generate_policy_events: the events it creates
\* from position i of the ordered snapshots on
RECURSIVE EventsFrom(_, _, _, _)
EventsFrom(events, iso, qs, i) ==
    IF i > Len(qs) THEN events
    ELSE EventsFrom(CreateEvent(events, iso, qs[i].date, Changes(qs[i - 1], qs[i])),
                    iso, qs, i + 1)

\* the body of "for iso in iso_codes" of generate_policy_events
GenerateFor(db, iso) ==
    IF iso \notin DOMAIN db.Country THEN db
    ELSE [db EXCEPT !.PolicyEvent =
            EventsFrom(DeleteEvents(db.PolicyEvent, iso), iso,
                       OrderByDate({p \in db.PolicyDaily : p.country = iso}), 2)]

\* Command.generate_policy_events(iso_codes); the countries are independent,
\* so the order of the iteration does not show
RECURSIVE generate_policy_events(_, _)
generate_policy_events(db, iso_codes) ==
    IF iso_codes = {} THEN db
    ELSE LET iso == CHOOSE x \in iso_codes : TRUE
         IN  generate_policy_events(GenerateFor(db, iso), iso_codes \ {iso})

\* -------------------------------------------------------------- import_oxcgrt

\* g(*keys) of import_oxcgrt: the first present, non-empty value, else None
\* (the empty text here, which _to_float and _to_int turn into None alike)
RECURSIVE g(_, _)
g(row, keys) ==
    IF keys = <<>> THEN <<>>
    ELSE IF Get(row, Head(keys)) # <<>> THEN Get(row, Head(keys))
    ELSE g(row, Tail(keys))

\* "defaults" of PolicyDaily.objects.update_or_create in import_oxcgrt
OxcgrtDefaults(row) ==
    [stringency_index |-> _to_float(g(row, <<"StringencyIndex", "stringency_index">>)),
     c1_school_closing |->
         _to_int(g(row, <<"C1_School closing", "c1_school_closing", "C1_School_Closing">>)),
     c2_workplace_closing |->
         _to_int(g(row, <<"C2_Workplace closing", "c2_workplace_closing", "C2_Workplace_Closing">>)),
     c6_stay_at_home |->
         _to_int(g(row, <<"C6_Stay at home requirements", "c6_stay_at_home",
                    "C6_Stay_at_home_requirements">>)),
     c8_international_travel_controls |->
         _to_int(g(row, <<"C8_International travel controls", "c8_international_travel_controls",
                    "C8_International_travel_controls">>)),
     h6_facial_coverings |->
         _to_int(g(row, <<"H6_Facial Coverings", "h6_facial_coverings", "H6_Facial_Coverings">>))]

\* name = (row.get("CountryName") or row.get("country_name") or row.get("Country") or "").strip()
OxcgrtName(row) ==
    strip(Or3(Get(row, "CountryName"), Get(row, "country_name"), Get(row, "Country")))

\* "if not iso: iso = f"X_{name[:6].upper()}""
IsoOrName(iso, name) ==
    IF iso = <<>>
    THEN <<"X", "_">> \o upper(SubSeq(name, 1, Min(6, Len(name))))
    ELSE iso

\* iso = (row.get("CountryCode") or row.get("country_code") or row.get("ISO3") or "").strip(),
\* and f"X_{name[:6].upper()}" when that is empty
OxcgrtIso(row) ==
    IsoOrName(strip(Or3(Get(row, "CountryCode"), Get(row, "country_code"), Get(row, "ISO3"))),
              OxcgrtName(row))

\* row.get("Date") or row.get("date") or ""
OxcgrtDate(row) == Or3(Get(row, "Date"), Get(row, "date"), <<>>)

\* The end of an iteration of import_oxcgrt: `country` is fetched or
\* created, its name is updated, and the snapshot is stored.
OxcgrtStore(st, row, iso, name, d, c0) ==
    [db |-> [st.db EXCEPT
               !.Country = IF c0[iso].name # name THEN [c0 EXCEPT ![iso].name = name] ELSE c0,
               !.PolicyDaily = update_or_create(st.db.PolicyDaily, PolicyFields,
                                                iso, d, OxcgrtDefaults(row))],
     seen |-> st.seen \cup {iso},
     raised |-> FALSE]

\* An iteration of import_oxcgrt once name, iso and d are bound
OxcgrtBody(st, row, limit_countries, name, iso, d) ==
    IF name = <<>> THEN st
    ELSE IF CapSkip(limit_countries, iso, st.seen) THEN st
    ELSE IF d.raised THEN [st EXCEPT !.raised = TRUE]
    ELSE IF d.value = None THEN st
    ELSE OxcgrtStore(st, row, iso, name, d.value[1], get_or_create(st.db.Country, iso, name))

\* One iteration of the loop of import_oxcgrt over `row`
OxcgrtRow(st, row, limit_countries) ==
    OxcgrtBody(st, row, limit_countries, OxcgrtName(row), OxcgrtIso(row),
               _parse_date(OxcgrtDate(row)))

RECURSIVE OxcgrtLoop(_, _, _, _)
OxcgrtLoop(st, rows, i, limit_countries) ==
    IF i > Len(rows) \/ st.raised THEN st
    ELSE OxcgrtLoop(OxcgrtRow(st, rows[i], limit_countries), rows, i + 1, limit_countries)

\* "self.generate_policy_events(seen_countries)" after a loop that has not raised
ThenGenerate(looped) ==
    IF looped.raised THEN looped
    ELSE [looped EXCEPT !.db = generate_policy_events(looped.db, looped.seen)]

\* Command.import_oxcgrt(csv_text, limit_countries): the loop, then
\* generate_policy_events(seen_countries), all in one transaction
import_oxcgrt(db, rows, limit_countries) ==
    Transaction(db, ThenGenerate(OxcgrtLoop([db |-> db, seen |-> {}, raised |-> FALSE],
                                            rows, 1, limit_countries)))

\* ------------------------------------------------------------------- feeds

T_AAA == <<"A", "A", "A">>

T_BBB == <<"B", "B", "B">>

T_Aland == <<"A", "l", "a", "n", "d">>

T_Bland == <<"B", "l", "a", "n", "d">>

\* an OWID row with every numeric column filled: a zero, a decimal, and the
\* two vaccination columns that only the data model declares
OwidFull ==
    [new_cases_smoothed |-> <<"5">>,
     new_deaths_smoothed |-> <<"0">>,
     total_cases |-> <<"1", "2", ".", "5">>,
     total_deaths |-> <<"3">>,
     new_cases_smoothed_per_million |-> <<"4">>,
     new_deaths_smoothed_per_million |-> <<"1">>,
     total_vaccinations_per_hundred |-> <<"9">>,
     people_vaccinated_per_hundred |-> <<"6">>,
     people_fully_vaccinated_per_hundred |-> <<"2">>,
     new_vaccinations_smoothed_per_million |-> <<"8">>]

\* an OWID row with few columns filled, one of them unparsable
OwidSparse ==
    [new_cases_smoothed |-> <<"7">>,
     new_deaths_smoothed |-> <<"n", "a">>,
     total_cases |-> <<>>,
     total_deaths |-> <<>>,
     new_cases_smoothed_per_million |-> <<>>,
     new_deaths_smoothed_per_million |-> <<>>,
     total_vaccinations_per_hundred |-> <<>>,
     people_vaccinated_per_hundred |-> <<>>,
     people_fully_vaccinated_per_hundred |-> <<>>,
     new_vaccinations_smoothed_per_million |-> <<>>]

With(row, more) ==
    [k \in DOMAIN row \cup DOMAIN more |-> IF k \in DOMAIN more THEN more[k] ELSE row[k]]

OwidLine(iso, location, population, date, cols) ==
    With(cols, [iso_code |-> iso, location |-> location, population |-> population,
                date |-> date])

\* the lines a metrics feed is made of; a feed holds a line once
OwidRows ==
    { OwidLine(T_AAA, T_Aland, <<"1", "0", "0">>,
               <<"2", "0", "2", "0", "-", "0", "1", "-", "0", "1">>, OwidFull),
      \* the same day again, less filled, no name
      OwidLine(T_AAA, <<>>, <<>>,
               <<"2", "0", "2", "0", "-", "0", "1", "-", "0", "1">>, OwidSparse),
      OwidLine(T_BBB, T_Bland, <<"0">>,
               <<"2", "0", "2", "0", "-", "0", "1", "-", "0", "2">>, OwidFull),
      \* no date
      OwidLine(T_BBB, T_Bland, <<>>, <<>>, OwidSparse),
      \* an aggregate
      OwidLine(<<"O", "W", "I", "D", "_", "W", "R", "L">>, <<"W", "o", "r", "l", "d">>, <<>>,
               <<"2", "0", "2", "0", "-", "0", "1", "-", "0", "1">>, OwidSparse),
      \* a month 13
      OwidLine(T_AAA, T_Aland, <<>>,
               <<"2", "0", "2", "0", "-", "1", "3", "-", "4", "5">>, OwidSparse) }

OxcgrtLine(code, name, date, s, c1, c2, c6, c8, h6) ==
    ("CountryCode" :> code) @@ ("CountryName" :> name) @@ ("Date" :> date)
    @@ ("StringencyIndex" :> s) @@ ("C1_School closing" :> c1)
    @@ ("C2_Workplace closing" :> c2) @@ ("C6_Stay at home requirements" :> c6)
    @@ ("C8_International travel controls" :> c8) @@ ("H6_Facial Coverings" :> h6)

\* the lines a policy feed is made of; a feed holds a line once
OxcgrtRows ==
    { OxcgrtLine(T_AAA, T_Aland, <<"2", "0", "2", "0", "0", "1", "0", "1">>,
                 <<"1", "0", ".", "0">>, <<"0">>, <<"0">>, <<>>, <<"1">>, <<>>),
      \* the next day, stringency up by 1.9 and nothing else
      OxcgrtLine(T_AAA, T_Aland, <<"2", "0", "2", "0", "0", "1", "0", "2">>,
                 <<"1", "1", ".", "9">>, <<"0">>, <<"0">>, <<>>, <<"1">>, <<>>),
      \* the next day, stringency up by 2.0 and four ordinal changes
      OxcgrtLine(T_AAA, T_Aland, <<"2", "0", "2", "0", "0", "1", "0", "2">>,
                 <<"1", "2", ".", "0">>, <<"2">>, <<"0">>, <<"1">>, <<>>, <<"3", ".", "0">>),
      \* an export with the other spellings and no country code: the
      \* country goes by its name
      [country_name |-> <<" ">> \o T_Bland,
       date |-> <<"2", "0", "2", "0", "-", "0", "1", "-", "0", "3">>,
       stringency_index |-> <<"5", "0">>,
       c1_school_closing |-> <<"1">>],
      \* no country name
      [country_code |-> T_BBB, Date |-> <<"2", "0", "2", "0", "0", "1", "0", "1">>,
       StringencyIndex |-> <<"5", "0">>],
      \* a 30th of February
      OxcgrtLine(T_AAA, T_Aland, <<"2", "0", "2", "0", "0", "2", "3", "0">>,
                 <<"1", "0", ".", "0">>, <<"0">>, <<"0">>, <<>>, <<"1">>, <<>>) }

\* the longest feed
MaxRows == 3

\* the values of --limit_countries: none (0) and a cap of one country
Limits == {0, 1}

\* ------------------------------------------------------------------ actions

db == DB(Country, DailyMetric, PolicyDaily, PolicyEvent)

Store(new) ==
    /\ Country' = new.Country
    /\ DailyMetric' = new.DailyMetric
    /\ PolicyDaily' = new.PolicyDaily
    /\ PolicyEvent' = new.PolicyEvent

EmptyDB == DB(<<>>, {}, {}, EmptyBag)

Idle ==
    [kind |-> "none", pc |-> "idle", rows |-> <<>>, limit_countries |-> 0,
     seen_countries |-> {}, raised |-> FALSE, again |-> FALSE]

Init ==
    /\ Country = <<>>
    /\ DailyMetric = {}
    /\ PolicyDaily = {}
    /\ PolicyEvent = EmptyBag
    /\ pre = EmptyDB
    /\ run = Idle

\* A command enters import_owid: the transaction begins, seen_countries = set()
BeginOwid ==
    /\ run.pc = "idle"
    /\ \E limit_countries \in Limits :
          run' = [Idle EXCEPT !.kind = "owid", !.pc = "loop",
                              !.limit_countries = limit_countries]
    /\ pre' = db
    /\ UNCHANGED <<Country, DailyMetric, PolicyDaily, PolicyEvent>>

\* A command enters import_oxcgrt
BeginOxcgrt ==
    /\ run.pc = "idle"
    /\ \E limit_countries \in Limits :
          run' = [Idle EXCEPT !.kind = "oxcgrt", !.pc = "loop",
                              !.limit_countries = limit_countries]
    /\ pre' = db
    /\ UNCHANGED <<Country, DailyMetric, PolicyDaily, PolicyEvent>>

\* One more row read by "for row in reader" of import_owid.  A ValueError
\* ends the command, and the transaction is rolled back.
OwidStep ==
    /\ run.pc = "loop"
    /\ run.kind = "owid"
    /\ Len(run.rows) < MaxRows
    /\ \E row \in OwidRows \ Range(run.rows) :
         \E st \in {OwidRow([db |-> db, seen |-> run.seen_countries, raised |-> FALSE],
                            row, run.limit_countries)} :
            /\ Store(Atomic(pre, st))
            /\ run' = [run EXCEPT !.rows = Append(@, row),
                                  !.seen_countries = st.seen,
                                  !.raised = st.raised,
                                  !.pc = IF st.raised THEN "idle" ELSE "loop"]
    /\ UNCHANGED pre

\* One more row read by "for row in reader" of import_oxcgrt
OxcgrtStep ==
    /\ run.pc = "loop"
    /\ run.kind = "oxcgrt"
    /\ Len(run.rows) < MaxRows
    /\ \E row \in OxcgrtRows \ Range(run.rows) :
         \E st \in {OxcgrtRow([db |-> db, seen |-> run.seen_countries, raised |-> FALSE],
                              row, run.limit_countries)} :
            /\ Store(Atomic(pre, st))
            /\ run' = [run EXCEPT !.rows = Append(@, row),
                                  !.seen_countries = st.seen,
                                  !.raised = st.raised,
                                  !.pc = IF st.raised THEN "idle" ELSE "loop"]
    /\ UNCHANGED pre

\* The reader is exhausted: import_owid returns and the transaction commits.
EndOwid ==
    /\ run.pc = "loop"
    /\ run.kind = "owid"
    /\ run' = [run EXCEPT !.pc = "idle"]
    /\ UNCHANGED <<Country, DailyMetric, PolicyDaily, PolicyEvent, pre>>

\* The reader is exhausted: import_oxcgrt calls
\* generate_policy_events(seen_countries), returns, and the transaction commits.
EndOxcgrt ==
    /\ run.pc = "loop"
    /\ run.kind = "oxcgrt"
    /\ Store(generate_policy_events(db, run.seen_countries))
    /\ run' = [run EXCEPT !.pc = "idle"]
    /\ UNCHANGED pre

\* The command that has just ended is run again on the same feed.
RunAgain ==
    /\ run.pc = "idle"
    /\ run.kind \in {"owid", "oxcgrt"}
    /\ ~run.again
    /\ \E res \in {IF run.kind = "owid"
                   THEN import_owid(db, run.rows, run.limit_countries)
                   ELSE import_oxcgrt(db, run.rows, run.limit_countries)} :
          /\ Store(res.db)
          /\ run' = [run EXCEPT !.seen_countries = res.seen, !.raised = res.raised,
                                !.again = TRUE]
    /\ pre' = db

Next ==
    \/ BeginOwid \/ OwidStep \/ EndOwid
    \/ BeginOxcgrt \/ OxcgrtStep \/ EndOxcgrt
    \/ RunAgain

Spec == Init /\ [][Next]_vars

\* ------------------------------------------- the event generator on its own

\* The values a policy snapshot holds after import_oxcgrt: an ordinal level
\* or None, a stringency in tenths or None.
Ordinals == {None, Some(2), Some(3)}

\* the earlier snapshot: nothing known, every level 2, or a mixture
PrevOrdinals ==
    { <<None, None, None, None, None>>,
      <<Some(2), Some(2), Some(2), Some(2), Some(2)>>,
      <<None, Some(2), None, Some(2), Some(2)>> }

PrevStringency == {None, Some(100)}

\* around 10.0: the same, 1.9 and 2.0 above and below, 3.0 above, and None
CurStringency == {None, Some(100), Some(119), Some(120), Some(81), Some(80), Some(130)}

\* a PolicyDaily row
Snapshot(iso, date, s, o) ==
    [country |-> iso, date |-> date, stringency_index |-> s,
     c1_school_closing |-> o[1], c2_workplace_closing |-> o[2],
     c6_stay_at_home |-> o[3], c8_international_travel_controls |-> o[4],
     h6_facial_coverings |-> o[5]]

\* A store in which one country has two consecutive policy snapshots and
\* generate_policy_events is about to run for it.
InitDiff ==
    /\ Country = (T_AAA :> [name |-> T_Aland, population |-> None])
    /\ DailyMetric = {}
    /\ \E s0 \in PrevStringency, o0 \in PrevOrdinals, s1 \in CurStringency :
       \E o1 \in Ordinals \X Ordinals \X Ordinals \X Ordinals \X Ordinals :
          PolicyDaily = {Snapshot(T_AAA, 20200101, s0, o0), Snapshot(T_AAA, 20200102, s1, o1)}
    /\ PolicyEvent = EmptyBag
    /\ pre = EmptyDB
    /\ run = [kind |-> "events", pc |-> "ready", changes |-> <<>>]

\* generate_policy_events(iso_codes) runs for the country; `changes` is the
\* list the last iteration of "for p in qs" has built.
GenerateEvents ==
    /\ run.kind = "events"
    /\ run.pc = "ready"
    /\ Store(generate_policy_events(db, {T_AAA}))
    /\ \E qs \in {OrderByDate(PolicyDaily)} :
          run' = [run EXCEPT !.pc = "done", !.changes = Changes(qs[Len(qs) - 1], qs[Len(qs)])]
    /\ UNCHANGED pre

NextDiff == GenerateEvents

SpecDiff == InitDiff /\ [][NextDiff]_vars

\* --------------------------------------------------- what a feed should do

\* A command has ended (committed or rolled back).
Ended == run.pc = "idle" /\ run.kind \in {"owid", "oxcgrt"}

Committed == Ended /\ ~run.raised

\* the country a row is about, its date text, and whether it names a country
IsoOf(kind, row) == IF kind = "owid" THEN Get(row, "iso_code") ELSE OxcgrtIso(row)

DateOf(kind, row) == IF kind = "owid" THEN Get(row, "date") ELSE OxcgrtDate(row)

Named(kind, row) ==
    IF kind = "owid" THEN ~OwidAggregate(Get(row, "iso_code")) ELSE OxcgrtName(row) # <<>>

\* the date text is a calendar date in one of the two formats
ValidDate(text) == ~_parse_date(text).raised /\ _parse_date(text).value # None

\* what a row asks for: whether it is valid, and its key
KeyOf(named, iso, d) ==
    IF named /\ ~d.raised /\ d.value # None
    THEN [valid |-> TRUE, iso |-> iso, date |-> d.value[1]]
    ELSE [valid |-> FALSE, iso |-> <<>>, date |-> 0]

RECURSIVE AskedOf(_, _)
AskedOf(kind, rows) ==
    IF rows = <<>> THEN <<>>
    ELSE <<KeyOf(Named(kind, Head(rows)), IsoOf(kind, Head(rows)),
                 _parse_date(DateOf(kind, Head(rows))))>>
         \o AskedOf(kind, Tail(rows))

\* what the rows of the running command ask for, row by row
Asked == AskedOf(run.kind, run.rows)

\* The rows to be stored under a cap of n distinct countries (0: no cap):
\* the valid rows of the countries that are admitted, which are those whose
\* first valid row comes after the valid rows of fewer than n other countries.
Wanted(asked, n) ==
    LET first(iso) == CHOOSE i \in DOMAIN asked :
                          /\ asked[i].valid /\ asked[i].iso = iso
                          /\ \A j \in 1..(i - 1) : ~(asked[j].valid /\ asked[j].iso = iso)
        before(iso) == {asked[j].iso : j \in {j \in 1..(first(iso) - 1) : asked[j].valid}}
    IN  {i \in DOMAIN asked :
            asked[i].valid /\ (n = 0 \/ Cardinality(before(asked[i].iso)) < n)}

\* the rows to be stored that no later row of the feed replaces
Final(asked, wanted) ==
    {i \in wanted :
        \A j \in wanted :
            (asked[j].iso = asked[i].iso /\ asked[j].date = asked[i].date) => j <= i}

\* the table a command writes, and the record it normalises a row to
TableOf(kind, d) == IF kind = "owid" THEN d.DailyMetric ELSE d.PolicyDaily

FieldsOf(kind) == IF kind = "owid" THEN MetricFields ELSE PolicyFields

Normalised(kind, row) == IF kind = "owid" THEN OwidDefaults(row) ELSE OxcgrtDefaults(row)

At(table, iso, date) == {r \in table : r.country = iso /\ r.date = date}

\* the source column of each DailyMetric field (the metrics feed schema)
MetricColumn(f) ==
    IF f = "cases_per_million" THEN "new_cases_smoothed_per_million"
    ELSE IF f = "deaths_per_million" THEN "new_deaths_smoothed_per_million"
    ELSE f

\* the coerced values of the source columns of a row, field by field
Source(kind, row) ==
    IF kind = "owid"
    THEN [f \in MetricFields |-> _to_float(Get(row, MetricColumn(f)))]
    ELSE OxcgrtDefaults(row)

NoDuplicateKey(table) ==
    \A r1, r2 \in table : (r1.country = r2.country /\ r1.date = r2.date) => r1 = r2

\* the rows of a country in the three keyed tables
OfCountry(d, iso) ==
    [c |-> IF iso \in DOMAIN d.Country THEN <<d.Country[iso]>> ELSE <<>>,
     m |-> {r \in d.DailyMetric : r.country = iso},
     p |-> {r \in d.PolicyDaily : r.country = iso}]

\* ------------------------------------------------------------------ claims

\* C1: a command run twice in a row on the same feed and cap leaves the
\* store as one run did: the same Country, DailyMetric and PolicyDaily rows,
\* the same set of PolicyEvent triples, and no two rows under one
\* (country, date).
C1_Idempotent ==
    (Ended /\ run.again) =>
        /\ Country = pre.Country
        /\ DailyMetric = pre.DailyMetric
        /\ PolicyDaily = pre.PolicyDaily
        /\ BagToSet(PolicyEvent) = BagToSet(pre.PolicyEvent)
        /\ NoDuplicateKey(DailyMetric)
        /\ NoDuplicateKey(PolicyDaily)

\* a feed that stores two different rows under one key has been run again,
\* over a store that holds metrics, policies and events
C1_Witness ==
    /\ Committed /\ run.again
    /\ \E asked \in {Asked} : \E i, j \in Wanted(asked, run.limit_countries) :
          /\ i < j
          /\ asked[i].iso = asked[j].iso /\ asked[i].date = asked[j].date
          /\ run.rows[i] # run.rows[j]
    /\ DailyMetric # {}
    /\ PolicyEvent # EmptyBag

\* C2: a command that fails at a row leaves the store as it was before the
\* command began: no change of the four tables remains.
C2_Atomic ==
    (Ended /\ run.raised) => db = pre

\* a policy import failed after a row that changes a stored snapshot, over a
\* store with events
C2_Witness ==
    /\ Ended /\ run.raised /\ run.kind = "oxcgrt"
    /\ pre.PolicyEvent # EmptyBag
    /\ \E asked \in {Asked} : \E i \in 1..(Len(run.rows) - 1) :
          /\ asked[i].valid
          /\ \E r \in At(pre.PolicyDaily, asked[i].iso, asked[i].date) :
                \E f \in PolicyFields : r[f] # OxcgrtDefaults(run.rows[i])[f]

\* C3 (as claimed): when a feed holds a row whose date is missing or
\* unparsable, every valid row of the feed is still stored by the command.
C3_BadDateRowSkipped ==
    (Ended /\ \E i \in DOMAIN run.rows :
                 Named(run.kind, run.rows[i]) /\ ~ValidDate(DateOf(run.kind, run.rows[i])))
    => \A asked \in {Asked} : \A i \in Wanted(asked, run.limit_countries) :
          At(TableOf(run.kind, db), asked[i].iso, asked[i].date) # {}

\* C4: when a stored (country, date) row is imported again, every field that
\* was populated and whose source column is empty in the new row is null
\* afterwards, and every field populated in the record the row is
\* normalised to holds the new value: nothing earlier survives by merge.
\* (The two DailyMetric fields that import_owid never reads are never
\* populated; they are the matter of C5.)
C4_Replace ==
    Committed =>
        \A asked \in {Asked} :
            \A i \in Final(asked, Wanted(asked, run.limit_countries)) :
                \A r0 \in At(TableOf(run.kind, pre), asked[i].iso, asked[i].date) :
                    \A new \in {Normalised(run.kind, run.rows[i])} :
                        \A src \in {Source(run.kind, run.rows[i])} :
                            /\ At(TableOf(run.kind, db), asked[i].iso, asked[i].date) # {}
                            /\ \A r \in At(TableOf(run.kind, db), asked[i].iso, asked[i].date) :
                                  /\ \A f \in FieldsOf(run.kind) :
                                        (r0[f] # None /\ src[f] = None) => r[f] = None
                                  /\ \A f \in DOMAIN new : new[f] # None => r[f] = new[f]

\* a stored metrics row with populated fields has been imported again from
\* a row in which some of them are empty and another has a new value
C4_Witness ==
    /\ Committed /\ run.kind = "owid"
    /\ \E asked \in {Asked} :
          \E i \in Final(asked, Wanted(asked, run.limit_countries)) :
              \E r0 \in At(pre.DailyMetric, asked[i].iso, asked[i].date) :
                  /\ \E f \in MetricFields :
                        r0[f] # None /\ Source("owid", run.rows[i])[f] = None
                  /\ \E f \in MetricFields :
                        r0[f] # None /\ Source("owid", run.rows[i])[f] \notin {None, r0[f]}

\* C5 (as claimed): after import_owid, every DailyMetric field of a stored
\* row, the two further vaccination fields included, is the coerced value of
\* its source column in the row it was stored from.
C5_AllFieldsStored ==
    (Committed /\ run.kind = "owid") =>
        \A asked \in {Asked} :
            \A i \in Final(asked, Wanted(asked, run.limit_countries)) :
                \A r \in At(DailyMetric, asked[i].iso, asked[i].date) :
                    \A f \in MetricFields : r[f] = Source("owid", run.rows[i])[f]

\* ---------------------------------------------------- events to be expected

\* the snapshot of `rows` that immediately precedes p, if any
Preceding(rows, p) ==
    {q \in rows : q.date < p.date /\ \A r \in rows : ~(q.date < r.date /\ r.date < p.date)}

\* the events the policy history of a country calls for: one on each date
\* whose snapshot differs from the immediately preceding one
Derived(policies, iso) ==
    LET rows == {p \in policies : p.country = iso}
    IN  {[country |-> iso, date |-> x[2].date, text |-> EventText(Changes(x[1], x[2]))] :
            x \in {y \in rows \X rows : y[1] \in Preceding(rows, y[2])
                                        /\ Changes(y[1], y[2]) # <<>>}}

\* the six indicators in the order of the diff calls, and their labels
Indicators ==
    <<"stringency_index", "c1_school_closing", "c2_workplace_closing", "c6_stay_at_home",
      "c8_international_travel_controls", "h6_facial_coverings">>

Label(f) ==
    CASE f = "stringency_index" -> "Stringency"
      [] f = "c1_school_closing" -> "School closing"
      [] f = "c2_workplace_closing" -> "Workplace closing"
      [] f = "c6_stay_at_home" -> "Stay-at-home"
      [] f = "c8_international_travel_controls" -> "Intl travel"
      [] f = "h6_facial_coverings" -> "Face coverings"

\* the generator has run on the two snapshots
Generated == run.kind = "events" /\ run.pc = "done"

\* the two snapshots, earlier and later
Earlier == CHOOSE p \in PolicyDaily : \A q \in PolicyDaily : p.date <= q.date

Later == CHOOSE p \in PolicyDaily : \A q \in PolicyDaily : q.date <= p.date

\* the labels of the clauses in a list of changes
Labels(changes) == {changes[i][1] : i \in DOMAIN changes}

\* an ordinal indicator has changed: the values differ, one at least is set
OrdinalChanged(a, b) == a # b /\ (a # None \/ b # None)

\* the stringency has changed: one value alone is set, or both are and
\* differ by 2.0 or more
StringencyChanged(a, b) ==
    \/ (a = None) # (b = None)
    \/ a # None /\ b # None /\ Abs(b[1] - a[1]) >= StringencyThreshold

\* the clauses of the indicators that have changed, in the fixed order
RECURSIVE Expected(_, _, _)
Expected(a, b, i) ==
    IF i > Len(Indicators) THEN <<>>
    ELSE LET f == Indicators[i]
             changed == IF i = 1 THEN StringencyChanged(a[f], b[f])
                        ELSE OrdinalChanged(a[f], b[f])
         IN  (IF changed THEN << <<Label(f), a[f], b[f]>> >> ELSE <<>>)
             \o Expected(a, b, i + 1)

\* --------------------------------------------------------- claims, continued

\* C6: whenever no import is running, the PolicyEvent rows of every country
\* are exactly the events its PolicyDaily rows call for, in date order: one
\* event on each date that has an immediately preceding snapshot from which
\* an indicator changed, none on the first date or on a date without a
\* change, none stale, none twice; and generate_policy_events run again on
\* the countries changes nothing.
C6_EventsMatchHistory ==
    run.pc = "idle" =>
        /\ \A e \in BagToSet(PolicyEvent) :
              /\ PolicyEvent[e] = 1
              /\ e.country \in DOMAIN Country
        /\ \A iso \in DOMAIN Country :
              {e \in BagToSet(PolicyEvent) : e.country = iso} = Derived(PolicyDaily, iso)
        /\ generate_policy_events(db, DOMAIN Country) = db

\* a policy import has replaced the snapshot an event was derived from, and
\* the event is gone while both snapshots of the country are stored
C6_Witness ==
    /\ Committed /\ run.kind = "oxcgrt"
    /\ \E e \in BagToSet(pre.PolicyEvent) :
          /\ e \notin BagToSet(PolicyEvent)
          /\ e.country \in run.seen_countries
          /\ Cardinality({p \in PolicyDaily : p.country = e.country}) >= 2
          /\ At(PolicyDaily, e.country, e.date) # At(pre.PolicyDaily, e.country, e.date)

\* C7 (amended): between two consecutive snapshots whose stringency values
\* are both set, a Stringency clause is contributed exactly when they differ
\* by 2.0 or more (none at 1.9, one at exactly 2.0); when one value alone is
\* set, a Stringency clause is contributed whatever the values.
C7_StringencyThreshold ==
    Generated =>
        \A a \in {Earlier.stringency_index} : \A b \in {Later.stringency_index} :
            /\ ("Stringency" \in Labels(run.changes)) <=> StringencyChanged(a, b)
            /\ StringencyChanged(a, b) =>
                  /\ run.changes[1] = <<"Stringency", a, b>>
                  /\ \E e \in BagToSet(PolicyEvent) : e.text.clauses[1] = <<"Stringency", a, b>>
            /\ ~StringencyChanged(a, b) =>
                  \A e \in BagToSet(PolicyEvent) : "Stringency" \notin Labels(e.text.clauses)

\* the stringency went from 10.0 to exactly 12.0, and the event says so
C7_Witness ==
    /\ Generated
    /\ Earlier.stringency_index = Some(100)
    /\ Later.stringency_index = Some(120)
    /\ \E e \in BagToSet(PolicyEvent) :
          e.text.clauses[1] = <<"Stringency", Some(100), Some(120)>>

\* C7 (as claimed): a Stringency clause is contributed only if the absolute
\* difference of the two stringency values is at least 2.0.
C7_OnlyAboveThreshold ==
    (Generated /\ "Stringency" \in Labels(run.changes)) =>
        /\ Earlier.stringency_index # None
        /\ Later.stringency_index # None
        /\ Abs(Later.stringency_index[1] - Earlier.stringency_index[1]) >= StringencyThreshold

\* C8: each of the five ordinal indicators contributes a change clause if
\* and only if its two values differ and one at least is set, whatever the
\* size of the step: None -> 2 and 2 -> None do, None -> None and equal
\* values do not.
C8_OrdinalChange ==
    Generated =>
        \A i \in 2..Len(Indicators) :
            \A a \in {Earlier[Indicators[i]]} : \A b \in {Later[Indicators[i]]} :
                /\ (Label(Indicators[i]) \in Labels(run.changes)) <=> OrdinalChanged(a, b)
                /\ OrdinalChanged(a, b) =>
                      \E k \in DOMAIN run.changes :
                          run.changes[k] = <<Label(Indicators[i]), a, b>>

\* one ordinal went from None to 2, another from 2 to None, and both have
\* their clause
C8_Witness ==
    /\ Generated
    /\ \E k \in DOMAIN run.changes :
          run.changes[k] = <<"School closing", None, Some(2)>>
    /\ \E k \in DOMAIN run.changes :
          run.changes[k] = <<"Workplace closing", Some(2), None>>
    /\ Earlier.c6_stay_at_home = None /\ Later.c6_stay_at_home = None
    /\ "Stay-at-home" \notin Labels(run.changes)

\* C9: when k indicators (1 <= k <= 6) change on a date, the one event of
\* that date has exactly min(k, 3) clauses, the first of the changed
\* indicators in the fixed order, and the suffix " (+{k-3} more)" exactly
\* when k > 3.
C9_Overflow ==
    Generated =>
        \A expected \in {Expected(Earlier, Later, 1)} :
            Len(expected) >= 1 =>
                /\ Cardinality(BagToSet(PolicyEvent)) = 1
                /\ \A e \in BagToSet(PolicyEvent) :
                      /\ PolicyEvent[e] = 1
                      /\ e.date = Later.date
                      /\ Len(e.text.clauses) = Min(Len(expected), 3)
                      /\ \A i \in DOMAIN e.text.clauses : e.text.clauses[i] = expected[i]
                      /\ (e.text.more # None) <=> (Len(expected) > 3)
                      /\ Len(expected) > 3 => e.text.more = Some(Len(expected) - 3)

\* five indicators changed at once: three clauses and " (+2 more)"
C9_Witness ==
    /\ Generated
    /\ Len(run.changes) = 5
    /\ \E e \in BagToSet(PolicyEvent) :
          Len(e.text.clauses) = 3 /\ e.text.more = Some(2)

\* C10: in a command run under a cap of N > 0 countries, the countries with
\* a row created or updated are admitted ones, at most N of them; no
\* Country, DailyMetric or PolicyDaily row of any other country is written;
\* and every valid row of an admitted country, the rows after the cap was
\* reached included, is stored.
C10_Cap ==
    (Committed /\ run.limit_countries > 0) =>
        \A asked \in {Asked} : \A wanted \in {Wanted(asked, run.limit_countries)} :
            /\ Cardinality({asked[i].iso : i \in wanted}) <= run.limit_countries
            /\ \A iso \in (DOMAIN Country \cup DOMAIN pre.Country
                           \cup {IsoOf(run.kind, run.rows[i]) : i \in DOMAIN run.rows})
                          \ {asked[i].iso : i \in wanted} :
                  OfCountry(db, iso) = OfCountry(pre, iso)
            /\ \A i \in Final(asked, wanted) :
                  \A new \in {Normalised(run.kind, run.rows[i])} :
                      \E r \in At(TableOf(run.kind, db), asked[i].iso, asked[i].date) :
                          \A f \in DOMAIN new : r[f] = new[f]

\* under a cap of one, a valid row of a second country was skipped and a
\* later row of the admitted country was stored
C10_Witness ==
    /\ Committed /\ run.limit_countries = 1
    /\ \E asked \in {Asked} : \E wanted \in {Wanted(asked, 1)} :
          \E i, j \in DOMAIN asked :
              /\ i < j
              /\ asked[i].valid /\ i \notin wanted
              /\ asked[i].iso \notin DOMAIN Country
              /\ j \in Final(asked, wanted)
              /\ \E k \in wanted : k < i
              /\ At(TableOf(run.kind, db), asked[j].iso, asked[j].date) # {}

\* ---------------------------------------------------- views.py: api_timeseries

\* date.isoformat(): "YYYY-MM-DD"
isoformat(d) ==
    LET y == d \div 10000
        m == (d \div 100) % 100
        dd == d % 100
    IN  <<Digits[(y \div 1000) + 1], Digits[((y \div 100) % 10) + 1],
          Digits[((y \div 10) % 10) + 1], Digits[(y % 10) + 1], "-",
          Digits[(m \div 10) + 1], Digits[(m % 10) + 1], "-",
          Digits[(dd \div 10) + 1], Digits[(dd % 10) + 1]>>

\* ord(c) of the characters of an ISO date
ord(c) == IF c = "-" THEN 45 ELSE 48 + DigitVal(c)

\* a < b on str: by code point, a proper prefix first
RECURSIVE StrLess(_, _)
StrLess(a, b) ==
    IF b = <<>> THEN FALSE
    ELSE IF a = <<>> THEN TRUE
    ELSE IF a[1] # b[1] THEN ord(a[1]) < ord(b[1])
    ELSE StrLess(Tail(a), Tail(b))

\* _safe_ratio(cur, prev): cur / prev as the fraction num/den, or None.
\* The stored values are floats read from one-decimal texts; on the values
\* used here (integers, halves, and a tenth with its double) the float
\* quotient compares with 1.5 as the exact fraction does.
_safe_ratio(cur, prev) ==
    IF cur = None \/ prev = None THEN None
    ELSE IF prev[1] <= 0 THEN None
    ELSE Some([num |-> cur[1], den |-> prev[1]])

\* rc >= 1.5, both sides in tenths
GrowthRatio == 15

\* cur_cases >= 5
CasesFloor == 50

\* cur_deaths >= 0.2
DeathsFloor == 2

\* "if i < 7: continue", and the i - 7 of the comparison
Week == 7

\* abs(s_cur - s_prev) >= 10
StringencyMove == 100

\* thresholds = [10, 50, 70]
thresholds == <<100, 500, 700>>

\* the highest level POLICY_LEVELS names for an indicator
POLICY_LEVELS ==
    [c1_school_closing |-> 3, c2_workplace_closing |-> 3, c6_stay_at_home |-> 3,
     c8_international_travel_controls |-> 4, h6_facial_coverings |-> 4]

\* policy_level_text(key, val): a dash for None, else the value and whether
\* POLICY_LEVELS has a name for it (otherwise it reads "Level")
policy_level_text(key, val) ==
    IF val = None THEN "-"
    ELSE [val |-> val[1], named |-> val[1] \in 0..POLICY_LEVELS[key]]

\* the keys of "for key in [...]" of the policy detector, in the code's order
OrdinalKeys ==
    <<"c1_school_closing", "c2_workplace_closing", "c6_stay_at_home",
      "c8_international_travel_controls", "h6_facial_coverings">>

\* the stringency delta of the policy detector: the label, the two values
\* to one decimal, and the signed difference to one decimal
StringencyDelta(prev_pol, p) ==
    LET s_prev == prev_pol.stringency_index
        s_cur == p.stringency_index
    IN  IF s_prev # None /\ s_cur # None /\ Abs(s_cur[1] - s_prev[1]) >= StringencyMove
        THEN << [label |-> "stringency_index", from |-> s_prev[1], to |-> s_cur[1],
                 delta |-> s_cur[1] - s_prev[1]] >>
        ELSE <<>>

\* the deltas of the ordinal indicators from position k of OrdinalKeys on
RECURSIVE OrdinalDeltas(_, _, _)
OrdinalDeltas(prev_pol, p, k) ==
    IF k > Len(OrdinalKeys) THEN <<>>
    ELSE LET key == OrdinalKeys[k]
             a == prev_pol[key]
             b == p[key]
         IN  (IF a # b /\ (a # None \/ b # None)
              THEN << [label |-> key, from |-> policy_level_text(key, a),
                       to |-> policy_level_text(key, b)] >>
              ELSE <<>>)
             \o OrdinalDeltas(prev_pol, p, k + 1)

\* `deltas` of one iteration of the policy detector
Deltas(prev_pol, p) == StringencyDelta(prev_pol, p) \o OrdinalDeltas(prev_pol, p, 1)

\* the highlight the policy detector appends for deltas; only the
\* stringency delta holds both "Stringency" and the delta sign
PolicyHighlight(d, deltas) ==
    [date |-> d, type |-> "policy", title |-> "Major policy change",
     details |-> SubSeq(deltas, 1, Min(6, Len(deltas))),
     severity |-> IF \E k \in 1..Len(deltas) : deltas[k].label = "stringency_index"
                  THEN 2 ELSE 1]

\* A detector that keeps the last snapshot it saw across a date without one.
RECURSIVE PolicyLoopKeepPrev(_, _, _, _)
PolicyLoopKeepPrev(dates, pol_map, i, prev_pol) ==
    IF i > Len(dates) THEN <<>>
    ELSE IF dates[i] \notin DOMAIN pol_map
         THEN PolicyLoopKeepPrev(dates, pol_map, i + 1, prev_pol)
    ELSE (IF prev_pol # None /\ Deltas(prev_pol[1], pol_map[dates[i]]) # <<>>
          THEN <<PolicyHighlight(dates[i], Deltas(prev_pol[1], pol_map[dates[i]]))>>
          ELSE <<>>)
         \o PolicyLoopKeepPrev(dates, pol_map, i + 1, Some(pol_map[dates[i]]))

\* "for i, d in enumerate(dates)" of the policy detector from position i on,
\* prev_pol being None or the snapshot of the date before
RECURSIVE PolicyLoop(_, _, _, _)
PolicyLoop(dates, pol_map, i, prev_pol) ==
    IF i > Len(dates) THEN <<>>
    ELSE IF dates[i] \notin DOMAIN pol_map
         THEN PolicyLoop(dates, pol_map, i + 1, None)
    ELSE (IF prev_pol # None /\ Deltas(prev_pol[1], pol_map[dates[i]]) # <<>>
          THEN <<PolicyHighlight(dates[i], Deltas(prev_pol[1], pol_map[dates[i]]))>>
          ELSE <<>>)
         \o PolicyLoop(dates, pol_map, i + 1, Some(pol_map[dates[i]]))

\* f"{(rc - 1) * 100:.0f}": the growth in percent, rounded half to even
Percent(rc) ==
    LET n == 100 * (rc.num - rc.den)
        q == n \div rc.den
        r == n % rc.den
    IN  IF 2 * r > rc.den \/ (2 * r = rc.den /\ q % 2 = 1) THEN q + 1 ELSE q

\* pm[i] if pm[i] is not None else raw[i]
Preferred(pm, raw, i) == IF pm[i] # None THEN pm[i] ELSE raw[i]

\* A growth test without the floor on the current value.
GrowthHighlightNoFloor(d, type, title, severity, cur, prev, floor) ==
    LET rc == _safe_ratio(cur, prev)
    IN  IF rc # None /\ rc[1].num * 10 >= GrowthRatio * rc[1].den
        THEN << [date |-> d, type |-> type, title |-> title,
                 details |-> <<Percent(rc[1])>>, severity |-> severity] >>
        ELSE <<>>

\* One of the two tests of the growth detector: "rc is not None and
\* rc >= 1.5 and cur is not None and cur >= floor", and the highlight
GrowthHighlight(d, type, title, severity, cur, prev, floor) ==
    LET rc == _safe_ratio(cur, prev)
    IN  IF /\ rc # None /\ rc[1].num * 10 >= GrowthRatio * rc[1].den
           /\ cur # None /\ cur[1] >= floor
        THEN << [date |-> d, type |-> type, title |-> title,
                 details |-> <<Percent(rc[1])>>, severity |-> severity] >>
        ELSE <<>>

\* A growth detector that compares a date with the date before it.
RECURSIVE GrowthLoopDayBefore(_, _, _, _, _, _)
GrowthLoopDayBefore(dates, cases, cases_pm, deaths, deaths_pm, i) ==
    IF i > Len(dates) THEN <<>>
    ELSE (IF i <= Week THEN <<>>
          ELSE GrowthHighlight(dates[i], "cases", "Rapid growth in cases", 2,
                               Preferred(cases_pm, cases, i),
                               Preferred(cases_pm, cases, i - 1), CasesFloor)
               \o GrowthHighlight(dates[i], "deaths", "Rapid growth in deaths", 3,
                                  Preferred(deaths_pm, deaths, i),
                                  Preferred(deaths_pm, deaths, i - 1), DeathsFloor))
         \o GrowthLoopDayBefore(dates, cases, cases_pm, deaths, deaths_pm, i + 1)

\* "for i in range(len(dates))" of the growth detector from position i on;
\* positions count from 1 here, so that "i < 7" reads i <= Week
RECURSIVE GrowthLoop(_, _, _, _, _, _)
GrowthLoop(dates, cases, cases_pm, deaths, deaths_pm, i) ==
    IF i > Len(dates) THEN <<>>
    ELSE (IF i <= Week THEN <<>>
          ELSE GrowthHighlight(dates[i], "cases", "Rapid growth in cases", 2,
                               Preferred(cases_pm, cases, i),
                               Preferred(cases_pm, cases, i - Week), CasesFloor)
               \o GrowthHighlight(dates[i], "deaths", "Rapid growth in deaths", 3,
                                  Preferred(deaths_pm, deaths, i),
                                  Preferred(deaths_pm, deaths, i - Week), DeathsFloor))
         \o GrowthLoop(dates, cases, cases_pm, deaths, deaths_pm, i + 1)

\* "for t in thresholds" from position k on: a highlight for every
\* threshold with prev_v < t <= v
RECURSIVE Crossings(_, _, _, _)
Crossings(d, prev_v, v, k) ==
    IF k > Len(thresholds) THEN <<>>
    ELSE (IF prev_v < thresholds[k] /\ thresholds[k] <= v
          THEN << [date |-> d, type |-> "vax", title |-> "Vaccination milestone",
                   details |-> <<thresholds[k]>>, severity |-> 1] >>
          ELSE <<>>)
         \o Crossings(d, prev_v, v, k + 1)

\* "for i, d in enumerate(dates)" of the milestone detector from position i
\* on, prev_v being None or the last value seen
RECURSIVE MilestoneLoop(_, _, _, _)
MilestoneLoop(dates, vax_full, i, prev_v) ==
    IF i > Len(dates) THEN <<>>
    ELSE IF vax_full[i] = None THEN MilestoneLoop(dates, vax_full, i + 1, prev_v)
    ELSE IF prev_v = None THEN MilestoneLoop(dates, vax_full, i + 1, vax_full[i])
    ELSE Crossings(dates[i], prev_v[1], vax_full[i][1], 1)
         \o MilestoneLoop(dates, vax_full, i + 1, vax_full[i])

\* sorted(highlights, key=lambda x: x["date"]): a stable sort on the text
\* of the date; insert(h, done) puts h behind every entry not after it
RECURSIVE sorted(_)
sorted(highlights) ==
    IF highlights = <<>> THEN <<>>
    ELSE LET done == sorted(SubSeq(highlights, 1, Len(highlights) - 1))
             h == highlights[Len(highlights)]
             k == Cardinality({j \in 1..Len(done) : ~StrLess(h.date, done[j].date)})
         IN  SubSeq(done, 1, k) \o <<h>> \o SubSeq(done, k + 1, Len(done))

\* A de-duplication that keeps every entry.
RECURSIVE DedupKeepAll(_, _, _)
DedupKeepAll(hs, i, seen) ==
    IF i > Len(hs) THEN <<>>
    ELSE <<hs[i]>> \o DedupKeepAll(hs, i + 1, seen)

\* "for h in sorted(...)" from position i on: the entries appended to uniq
RECURSIVE Dedup(_, _, _)
Dedup(hs, i, seen) ==
    IF i > Len(hs) THEN <<>>
    ELSE LET k == <<hs[i].date, hs[i].type, hs[i].title>>
         IN  IF k \in seen THEN Dedup(hs, i + 1, seen)
             ELSE <<hs[i]>> \o Dedup(hs, i + 1, seen \cup {k})

\* PolicyEvent.objects.filter(country=country).order_by("date"): the rows of
\* the bag in date order (rows of one date come in an order the database
\* chooses)
RECURSIVE EventsByDate(_)
EventsByDate(events) ==
    IF BagToSet(events) = {} THEN <<>>
    ELSE LET e == CHOOSE x \in BagToSet(events) :
                      \A y \in BagToSet(events) : x.date <= y.date
         IN  <<e>> \o EventsByDate(events (-) SetToBag({e}))

\* the rows of a bag of one country
FilterCountry(events, iso) ==
    LET keep == {e \in BagToSet(events) : e.country = iso}
    IN  IF keep = {} THEN EmptyBag ELSE [e \in keep |-> events[e]]

\* pol_map = {p["date"].isoformat(): p for p in policies}
PolMap(policies) ==
    [d \in {isoformat(policies[i].date) : i \in 1..Len(policies)} |->
        policies[CHOOSE i \in 1..Len(policies) :
                    /\ isoformat(policies[i].date) = d
                    /\ \A j \in 1..Len(policies) :
                          isoformat(policies[j].date) = d => j <= i]]

\* ev_map: for every date of an event, the texts of its events in order
EvMap(events) ==
    [d \in {isoformat(events[i].date) : i \in 1..Len(events)} |->
        LET of == SelectSeq(events, LAMBDA e : isoformat(e.date) = d)
        IN  [i \in 1..Len(of) |-> of[i].text]]

\* event_cards after "for m in metrics" from position i on
RECURSIVE EventCards(_, _, _)
EventCards(dates, ev_map, i) ==
    IF i > Len(dates) THEN <<>>
    ELSE (IF dates[i] \in DOMAIN ev_map
          THEN << [date |-> dates[i], items |-> ev_map[dates[i]]] >>
          ELSE <<>>)
         \o EventCards(dates, ev_map, i + 1)

\* one of the arrays "for m in metrics" fills from pol_map
PolicySeries(dates, pol_map, key) ==
    [i \in 1..Len(dates) |->
        IF dates[i] \in DOMAIN pol_map THEN pol_map[dates[i]][key] ELSE None]

\* one of the arrays "for m in metrics" fills from the DailyMetric rows
MetricSeries(metrics, key) == [i \in 1..Len(metrics) |-> metrics[i][key]]

\* the arrays of the response
Series(metrics, dates, pol_map) ==
    [cases |-> MetricSeries(metrics, "new_cases_smoothed"),
     deaths |-> MetricSeries(metrics, "new_deaths_smoothed"),
     cases_pm |-> MetricSeries(metrics, "cases_per_million"),
     deaths_pm |-> MetricSeries(metrics, "deaths_per_million"),
     stringency |-> PolicySeries(dates, pol_map, "stringency_index"),
     school |-> PolicySeries(dates, pol_map, "c1_school_closing"),
     work |-> PolicySeries(dates, pol_map, "c2_workplace_closing"),
     stayhome |-> PolicySeries(dates, pol_map, "c6_stay_at_home"),
     travel |-> PolicySeries(dates, pol_map, "c8_international_travel_controls"),
     masks |-> PolicySeries(dates, pol_map, "h6_facial_coverings"),
     vax_total_ph |-> MetricSeries(metrics, "total_vaccinations_per_hundred"),
     vax_one |-> MetricSeries(metrics, "people_vaccinated_per_hundred"),
     vax_full |-> MetricSeries(metrics, "people_fully_vaccinated_per_hundred"),
     vax_daily_pm |-> MetricSeries(metrics, "new_vaccinations_smoothed_per_million")]

\* the list `highlights` when the three detectors have run
Highlights(dates, series, pol_map) ==
    PolicyLoop(dates, pol_map, 1, None)
    \o GrowthLoop(dates, series.cases, series.cases_pm, series.deaths, series.deaths_pm, 1)
    \o MilestoneLoop(dates, series.vax_full, 1, None)

\* the response built from the rows read, and the list `highlights` with it
Respond(country, iso_code, metrics, dates, pol_map, ev_map) ==
    LET series == Series(metrics, dates, pol_map)
        highlights == Highlights(dates, series, pol_map)
    IN  [status |-> 200,
         country |-> [iso_code |-> iso_code, name |-> country.name],
         dates |-> dates,
         series |-> series,
         events |-> EventCards(dates, ev_map, 1),
         highlights |-> highlights,
         uniq |-> Dedup(sorted(highlights), 1, {})]

\* api_timeseries(request, iso_code) on the tables `store`: the status and the
\* payload of the JsonResponse ("highlights" of the payload is uniq; the
\* list `highlights` is kept beside it)
api_timeseries(store, iso_code) ==
    IF iso_code \notin DOMAIN store.Country
    THEN [status |-> 404]
    ELSE LET metrics == OrderByDate({m \in store.DailyMetric : m.country = iso_code})
             policies == OrderByDate({p \in store.PolicyDaily : p.country = iso_code})
             events == EventsByDate(FilterCountry(store.PolicyEvent, iso_code))
         IN  Respond(store.Country[iso_code], iso_code, metrics,
                     [i \in 1..Len(metrics) |-> isoformat(metrics[i].date)],
                     PolMap(policies), EvMap(events))

\* ------------------------------------------------- the stores that are queried

\* a DailyMetric row; the two columns import_owid never fills stay null
Metric(iso, date, values) ==
    [k \in MetricFields \cup {"country", "date"} |->
        IF k = "country" THEN iso
        ELSE IF k = "date" THEN date
        ELSE IF k \in DOMAIN values THEN values[k] ELSE None]

\* the i-th day of the stores
Day(i) == 20200100 + i

\* what a day can report of cases and deaths: nothing; 10.0 and 1.0 per
\* million; 15.0 and 1.5; 14.9 and 1.4; 100.0, and 0.1 deaths without a
\* per-million value; 200.0, and 0.2; 3.0 cases without a per-million value
\* and no deaths per million; 4.5 cases likewise
Levels ==
    { << >>,
      [cases_per_million |-> Some(100), new_cases_smoothed |-> Some(400),
       deaths_per_million |-> Some(10)],
      [cases_per_million |-> Some(150), deaths_per_million |-> Some(15)],
      [cases_per_million |-> Some(149), deaths_per_million |-> Some(14)],
      [cases_per_million |-> Some(1000), new_deaths_smoothed |-> Some(1)],
      [cases_per_million |-> Some(2000), new_deaths_smoothed |-> Some(2)],
      [new_cases_smoothed |-> Some(30), deaths_per_million |-> Some(0),
       new_deaths_smoothed |-> Some(50)],
      [new_cases_smoothed |-> Some(45), deaths_per_million |-> Some(1)] }

\* the fully vaccinated share a day can report: nothing, 9.9, 10.0, 55.0, 70.0
VaxLevels == {None, Some(99), Some(100), Some(550), Some(700)}

\* the policy snapshots a day can have
Snapshots ==
    { <<Some(500), <<Some(1), None, None, None, None>> >>,
      <<Some(600), <<Some(1), None, None, None, None>> >>,
      <<Some(500), <<Some(2), None, None, None, Some(9)>> >> }

MaxDays == 15

MaxVaxDays == 4

MaxPolicyDays == 3

\* the rows of a second country, in every store
OtherMetrics == {Metric(T_BBB, Day(2), [people_fully_vaccinated_per_hundred |-> Some(550)])}

OtherPolicies ==
    { Snapshot(T_BBB, Day(1), Some(500), <<None, None, None, None, None>>),
      Snapshot(T_BBB, Day(2), Some(500), <<Some(2), None, None, None, None>>) }

\* the store that holds these metrics and policies of T_AAA: the events are
\* the ones the import derived from the policies
StoreOf(metrics, policies) ==
    generate_policy_events(
        DB((T_AAA :> [name |-> T_Aland, population |-> None])
           @@ (T_BBB :> [name |-> T_Bland, population |-> Some(50)]),
           metrics \cup OtherMetrics, policies \cup OtherPolicies, EmptyBag),
        {T_AAA, T_BBB})

\* n days of cases and deaths that change level once, from a to b at day k
GrowthStore(n, k, a, b) ==
    StoreOf({Metric(T_AAA, Day(i), IF i < k THEN a ELSE b) : i \in 1..n}, {})

\* n days of the fully vaccinated share
VaxStore(n, v) ==
    StoreOf({Metric(T_AAA, Day(i), [people_fully_vaccinated_per_hundred |-> v[i]])
             : i \in 1..n}, {})

\* MaxPolicyDays days, each with or without a metric row (m[i] holds its
\* fully vaccinated share) and with or without a policy snapshot
PolicyStore(m, p) ==
    StoreOf({Metric(T_AAA, Day(i), [people_fully_vaccinated_per_hundred |-> m[i][1]])
             : i \in {j \in 1..MaxPolicyDays : m[j] # <<>>}},
            {Snapshot(T_AAA, Day(i), p[i][1], p[i][2])
             : i \in {j \in 1..MaxPolicyDays : p[j] # <<>>}})

\* the tables are those of a store, and no query has been made
Load(store) ==
    /\ Country = store.Country
    /\ DailyMetric = store.DailyMetric
    /\ PolicyDaily = store.PolicyDaily
    /\ PolicyEvent = store.PolicyEvent
    /\ pre = EmptyDB
    /\ run = [kind |-> "view", pc |-> "ready", iso_code |-> <<>>, response |-> <<>>]

InitView ==
    \/ \E n \in 0..MaxDays, a \in Levels, b \in Levels :
          \E k \in 1..(IF n = 0 THEN 1 ELSE n) :
              \E store \in {GrowthStore(n, k, a, b)} : Load(store)
    \/ \E n \in 0..MaxVaxDays : \E v \in [1..n -> VaxLevels] :
          \E store \in {VaxStore(n, v)} : Load(store)
    \/ \E m \in [1..MaxPolicyDays -> {<<>>, <<Some(90)>>, <<Some(550)>>}] :
          \E p \in [1..MaxPolicyDays -> Snapshots \cup {<<>>}] :
              \E store \in {PolicyStore(m, p)} : Load(store)

\* the countries asked for; the last one is unknown
Requested == {T_AAA, T_BBB, <<"C", "C", "C">>}

\* GET api/timeseries/<iso_code>: the view reads the tables and answers
Query ==
    /\ run.kind = "view"
    /\ run.pc = "ready"
    /\ \E iso_code \in Requested :
          run' = [run EXCEPT !.pc = "done", !.iso_code = iso_code,
                             !.response = api_timeseries(db, iso_code)]
    /\ UNCHANGED <<Country, DailyMetric, PolicyDaily, PolicyEvent, pre>>

NextView == Query

SpecView == InitView /\ [][NextView]_vars

\* ------------------------------------------------------- the answer of a query

\* the view has answered for a country it knows
Answered == run.kind = "view" /\ run.pc = "done" /\ run.response.status = 200

\* the DailyMetric rows of the country asked for
Asked_Metrics == {m \in DailyMetric : m.country = run.iso_code}

\* the index of a metric row's date in the answer's dates, from 0
Position(m) == Cardinality({x \in Asked_Metrics : x.date < m.date})

\* the metric row n dates before m
Back(m, n) == CHOOSE x \in Asked_Metrics : Position(x) = Position(m) - n

\* the values the growth detector reads from a metric row
CasesOf(m) == IF m.cases_per_million # None THEN m.cases_per_million ELSE m.new_cases_smoothed

DeathsOf(m) ==
    IF m.deaths_per_million # None THEN m.deaths_per_million ELSE m.new_deaths_smoothed

\* the answer has a highlight of this category on the date of m
Flagged(m, type) ==
    \E k \in DOMAIN run.response.uniq :
        /\ run.response.uniq[k].type = type
        /\ run.response.uniq[k].date = isoformat(m.date)

\* cur is at least 1.5 times a positive prev
Grew(cur, prev) ==
    /\ cur # None /\ prev # None /\ prev[1] > 0
    /\ 10 * cur[1] >= GrowthRatio * prev[1]

\* C11 (as amended): no cases (deaths) highlight is on a date whose current
\* value is absent or below 5 (0.2), or whose baseline, the value seven
\* dates earlier, is absent or not positive, whatever the ratio; the
\* baseline has no floor of its own: from the eighth date on, a current
\* value of at least 5 (0.2) that is at least 1.5 times a positive baseline
\* is highlighted, a baseline of 10 included.
C11_CurrentFloor ==
    Answered =>
        \A m \in Asked_Metrics :
            /\ Flagged(m, "cases") =>
                  /\ Position(m) >= Week
                  /\ CasesOf(m) # None /\ CasesOf(m)[1] >= CasesFloor
                  /\ CasesOf(Back(m, Week)) # None /\ CasesOf(Back(m, Week))[1] > 0
            /\ Flagged(m, "deaths") =>
                  /\ Position(m) >= Week
                  /\ DeathsOf(m) # None /\ DeathsOf(m)[1] >= DeathsFloor
                  /\ DeathsOf(Back(m, Week)) # None /\ DeathsOf(Back(m, Week))[1] > 0
            /\ Position(m) >= Week =>
                  /\ (Grew(CasesOf(m), CasesOf(Back(m, Week))) /\ CasesOf(m)[1] >= CasesFloor)
                        => Flagged(m, "cases")
                  /\ (Grew(DeathsOf(m), DeathsOf(Back(m, Week))) /\ DeathsOf(m)[1] >= DeathsFloor)
                        => Flagged(m, "deaths")

\* a cases highlight on a baseline of 10.0 and a current value of 15.0
C11_Witness ==
    /\ Answered
    /\ \E m \in Asked_Metrics :
          /\ Position(m) >= Week
          /\ CasesOf(Back(m, Week)) = Some(100)
          /\ CasesOf(m) = Some(150)
          /\ Flagged(m, "cases")

\* C11 as claimed: no cases highlight on a baseline below 50, no deaths
\* highlight on a baseline below 2
C11_BaselineFloor ==
    Answered =>
        \A m \in Asked_Metrics :
            /\ Flagged(m, "cases") =>
                  /\ Position(m) >= Week
                  /\ CasesOf(Back(m, Week)) # None /\ CasesOf(Back(m, Week))[1] >= 500
            /\ Flagged(m, "deaths") =>
                  /\ Position(m) >= Week
                  /\ DeathsOf(Back(m, Week)) # None /\ DeathsOf(Back(m, Week))[1] >= 20

\* C12 (as amended): a cases or deaths highlight is on a date of index 7
\* or later (seven earlier dates), and it is there exactly when the value
\* of the date is at least the series floor and at least 1.5 times the
\* positive value seven dates earlier; no index below 7 has one.
C12_FromIndex7 ==
    Answered =>
        \A m \in Asked_Metrics :
            /\ Flagged(m, "cases") <=>
                  /\ Position(m) >= Week
                  /\ Grew(CasesOf(m), CasesOf(Back(m, Week)))
                  /\ CasesOf(m)[1] >= CasesFloor
            /\ Flagged(m, "deaths") <=>
                  /\ Position(m) >= Week
                  /\ Grew(DeathsOf(m), DeathsOf(Back(m, Week)))
                  /\ DeathsOf(m)[1] >= DeathsFloor

\* fifteen dates, 100.0 up to index 7 and 200.0 from index 8 on: highlights
\* at index 8 and at index 14, none at index 7
C12_Witness ==
    /\ Answered
    /\ Cardinality(Asked_Metrics) = 15
    /\ \A m \in Asked_Metrics :
          CasesOf(m) = IF Position(m) <= 7 THEN Some(1000) ELSE Some(2000)
    /\ \A m \in Asked_Metrics :
          Flagged(m, "cases") <=> Position(m) \in 8..14

\* C12 as claimed: a cases highlight is on a date of index 14 or later,
\* whose trailing seven values sum to at least 1.5 times the seven before
C12_FromIndex14 ==
    LET v(m, n) == IF CasesOf(Back(m, n)) = None THEN 0 ELSE CasesOf(Back(m, n))[1]
        week(m, n) == v(m, n) + v(m, n + 1) + v(m, n + 2) + v(m, n + 3)
                      + v(m, n + 4) + v(m, n + 5) + v(m, n + 6)
    IN  Answered =>
            \A m \in Asked_Metrics :
                Flagged(m, "cases") =>
                    /\ Position(m) >= 14
                    /\ 10 * week(m, 0) >= GrowthRatio * week(m, 7)

\* the fully vaccinated share of a metric row
VaxOf(m) == m.people_fully_vaccinated_per_hundred

\* m reports a share and the last share reported before it was below t,
\* which m is not
Crosses(m, t) ==
    /\ VaxOf(m) # None
    /\ \E x \in Asked_Metrics :
          /\ x.date < m.date /\ VaxOf(x) # None
          /\ \A y \in Asked_Metrics : (x.date < y.date /\ y.date < m.date) => VaxOf(y) = None
          /\ VaxOf(x)[1] < t /\ t <= VaxOf(m)[1]

\* the positions of the answer's milestone highlights for threshold t
Milestones(t) ==
    {k \in DOMAIN run.response.uniq :
        /\ run.response.uniq[k].type = "vax"
        /\ run.response.uniq[k].details = <<t>>}

\* C13: for every threshold the answer holds at most one milestone
\* highlight, and it is on the first date on which the share goes from
\* strictly below the threshold to at or above it; a later drop and a new
\* crossing add none.
C13_MilestoneOnce ==
    Answered =>
        \A t \in Range(thresholds) :
            /\ Cardinality(Milestones(t)) <= 1
            /\ \A k \in Milestones(t) :
                  \E m \in Asked_Metrics :
                      /\ run.response.uniq[k].date = isoformat(m.date)
                      /\ Crosses(m, t)
                      /\ \A x \in Asked_Metrics : Crosses(x, t) => m.date <= x.date

\* the (date, category, title) of a highlight
Triple(h) == <<h.date, h.type, h.title>>

\* the date of the metric row a date of the answer stands for
DateOfText(d) == CHOOSE x \in {m.date : m \in Asked_Metrics} : isoformat(x) = d

\* C14: the highlights of the answer have no two entries with the same
\* (date, category, title), have an entry for every triple a detector
\* produced (and no other entry), and are in ascending order of date.
C14_DedupSorted ==
    Answered =>
        \A uniq \in {run.response.uniq} : \A highlights \in {run.response.highlights} :
            /\ \A i, j \in DOMAIN uniq : Triple(uniq[i]) = Triple(uniq[j]) => i = j
            /\ \A i \in DOMAIN highlights :
                  \E j \in DOMAIN uniq : Triple(uniq[j]) = Triple(highlights[i])
            /\ \A j \in DOMAIN uniq : \E i \in DOMAIN highlights : uniq[j] = highlights[i]
            /\ \A i, j \in DOMAIN uniq :
                  i < j => DateOfText(uniq[i].date) <= DateOfText(uniq[j].date)

\* the detectors produced one triple twice, and not in the order of the
\* dates: the answer holds it once, and in order
C14_Witness ==
    /\ Answered
    /\ \E i, j \in DOMAIN run.response.highlights :
          /\ i < j
          /\ Triple(run.response.highlights[i]) = Triple(run.response.highlights[j])
    /\ \E i, j \in DOMAIN run.response.highlights :
          /\ i < j
          /\ DateOfText(run.response.highlights[i].date)
                > DateOfText(run.response.highlights[j].date)
    /\ Len(run.response.uniq) < Len(run.response.highlights)
    /\ Len(run.response.uniq) >= 2

\* the stored events and policy snapshots of the country asked for
Asked_Events == {e \in BagToSet(PolicyEvent) : e.country = run.iso_code}

Asked_Policies == {p \in PolicyDaily : p.country = run.iso_code}

\* the dates of the country's metric rows
MetricDates == {m.date : m \in Asked_Metrics}

\* two snapshots that the policy detector tells apart: stringency moved by
\* 10 or more, or an ordinal indicator changed
Shifted(a, b) ==
    \/ /\ a.stringency_index # None /\ b.stringency_index # None
       /\ Abs(b.stringency_index[1] - a.stringency_index[1]) >= StringencyMove
    \/ \E key \in Range(OrdinalKeys) : a[key] # b[key]

\* the snapshot of the metric date right before date d, if it has one
Predecessor(d) ==
    {p \in Asked_Policies :
        /\ p.date < d /\ p.date \in MetricDates
        /\ \A x \in MetricDates : ~(p.date < x /\ x < d)}

\* C15: the events of the answer are the stored events of the country on
\* dates with a metric row, one card a date, in ascending order of date;
\* a policy highlight is on a metric date that has a snapshot which differs
\* from the snapshot of the metric date right before it, and it reports
\* that pair; a metric date without a snapshot ends the comparison, and no
\* event or snapshot of a date without a metric row is in the answer.
C15_AlignedToMetricDates ==
    Answered =>
        \A events \in {run.response.events} : \A uniq \in {run.response.uniq} :
            /\ \A i, j \in DOMAIN events :
                  i < j => DateOfText(events[i].date) < DateOfText(events[j].date)
            /\ \A i \in DOMAIN events :
                  /\ \E d \in MetricDates : isoformat(d) = events[i].date
                  /\ \A k \in DOMAIN events[i].items :
                        \E e \in Asked_Events :
                            /\ isoformat(e.date) = events[i].date
                            /\ e.text = events[i].items[k]
            /\ \A e \in Asked_Events :
                  e.date \in MetricDates =>
                      \E i \in DOMAIN events :
                          /\ events[i].date = isoformat(e.date)
                          /\ Cardinality({k \in DOMAIN events[i].items :
                                             events[i].items[k] = e.text}) = PolicyEvent[e]
            /\ \A d \in MetricDates :
                  \A cur \in {{p \in Asked_Policies : p.date = d}} :
                      \A shown \in {{k \in DOMAIN uniq : /\ uniq[k].type = "policy"
                                                        /\ uniq[k].date = isoformat(d)}} :
                          /\ shown # {} <=>
                                \E p \in cur : \E a \in Predecessor(d) : Shifted(a, p)
                          /\ \A k \in shown :
                                \E p \in cur : \E a \in Predecessor(d) :
                                    uniq[k].details = Deltas(a, p)
            /\ \A k \in DOMAIN uniq : \E d \in MetricDates : uniq[k].date = isoformat(d)
            /\ \A key \in {"stringency", "school", "work", "stayhome", "travel", "masks"} :
                  Len(run.response.series[key]) = Cardinality(MetricDates)

\* a snapshot and its event are on a date without a metric row: the event
\* is not in the answer while an event of a metric date is, and the policy
\* highlight of the next metric date compares it with the metric date before
C15_Witness ==
    /\ Answered
    /\ \E e \in Asked_Events : e.date \notin MetricDates
    /\ \E i \in DOMAIN run.response.events :
          \E e \in Asked_Events : isoformat(e.date) = run.response.events[i].date
    /\ \E d \in MetricDates : \E a \in Predecessor(d) :
          /\ \E p \in Asked_Policies : a.date < p.date /\ p.date < d
          /\ \E k \in DOMAIN run.response.uniq :
                /\ run.response.uniq[k].type = "policy"
                /\ run.response.uniq[k].date = isoformat(d)

====
